---- MODULE Spec2Model ----
(***************************************************************************)
(* R3Diffuser (model/sde/r3_diffuser.py): the VP-SDE diffuser for          *)
(* translations.  Numbers are exact rationals <<n, d>> (d > 0, lowest      *)
(* terms) extended with the IEEE special values the numeric backend        *)
(* produces: <<1,0>> = +inf, <<-1,0>> = -inf, <<0,0>> = nan.  Arrays are    *)
(* sequences; a point cloud [n, dim] is a sequence of n points, each a     *)
(* sequence of dim numbers.  Python objects live in a heap so that an      *)
(* in-place update (x *= m, x -= c) is seen through every alias of it.    *)
(***************************************************************************)
EXTENDS Integers, Sequences, FiniteSets, TLC

\* ------------------------------------------------------------------ bounds
NPoints == 2        \* n, the number of points of a cloud
MaxNumT == 2        \* forward is called with num_t in 1..MaxNumT
SqrtPrec == 10      \* np.sqrt / torch.sqrt are exact on rational squares and
                    \* rounded down to a multiple of 1/SqrtPrec elsewhere
ExpPrec == 100      \* torch.exp(-y) is computed as ExpPrec / floor(ExpPrec*e^y)
ExpMaxArg == 8      \* |y| beyond which exp underflows to 0 / overflows to inf

\* -------------------------------------------------------------- rationals
Abs(i) == IF i < 0 THEN -i ELSE i
Sign(i) == IF i < 0 THEN -1 ELSE IF i > 0 THEN 1 ELSE 0

RECURSIVE GCD(_, _)
GCD(a, b) == IF b = 0 THEN a ELSE GCD(b, a % b)

R(n, d) ==
    IF d = 0 THEN <<Sign(n), 0>>
    ELSE LET g == GCD(Abs(n), Abs(d))
         IN  <<Sign(d) * (n \div g), Abs(d) \div g>>

Zero == <<0, 1>>
One == <<1, 1>>
NaN == <<0, 0>>
Inf == <<1, 0>>
IsFinite(a) == a[2] # 0
IsNaN(a) == a = NaN

Neg(a) == <<-a[1], a[2]>>
Add(a, b) ==
    IF IsFinite(a) /\ IsFinite(b)
    THEN LET g == GCD(a[2], b[2])
         IN  R(a[1] * (b[2] \div g) + b[1] * (a[2] \div g), (a[2] \div g) * b[2])
    ELSE IF IsNaN(a) \/ IsNaN(b) THEN NaN
    ELSE IF IsFinite(b) THEN a
    ELSE IF IsFinite(a) THEN b
    ELSE IF a = b THEN a ELSE NaN
Sub(a, b) == Add(a, Neg(b))
Mul(a, b) ==
    IF IsFinite(a) /\ IsFinite(b)
    THEN LET g == GCD(Abs(a[1]), b[2])
             h == GCD(Abs(b[1]), a[2])
         IN  <<(a[1] \div g) * (b[1] \div h), (a[2] \div h) * (b[2] \div g)>>
    ELSE R(a[1] * b[1], a[2] * b[2])
Recip(a) == IF a[1] < 0 THEN <<-a[2], -a[1]>> ELSE <<a[2], a[1]>>
Div(a, b) == Mul(a, Recip(b))
Lt(a, b) ==
    /\ ~IsNaN(a) /\ ~IsNaN(b)
    /\ IF IsFinite(a) \/ IsFinite(b) THEN a[1] * b[2] < b[1] * a[2]
       ELSE a[1] < b[1]
Le(a, b) == ~IsNaN(a) /\ ~IsNaN(b) /\ ~Lt(b, a)

RECURSIVE ISqrt(_)
ISqrt(m) ==
    IF m < 2 THEN m
    ELSE LET s == 2 * ISqrt(m \div 4)
         IN  IF (s + 1) * (s + 1) <= m THEN s + 1 ELSE s

\* np.sqrt, torch.sqrt: nan on a negative argument (no exception).
Sqrt(a) ==
    IF IsNaN(a) \/ Lt(a, Zero) THEN NaN
    ELSE IF ~IsFinite(a) THEN Inf
    ELSE LET m == a[1] * a[2]
             r == ISqrt(m)
         IN  IF r * r = m THEN R(r, a[2])
             ELSE R(ISqrt((a[1] * SqrtPrec * SqrtPrec) \div a[2]), SqrtPrec)

\* floor(ExpPrec * e^y) for a finite y >= 0, by the Taylor series in fixed point.
RECURSIVE ExpSeries(_, _, _, _)
ExpSeries(y, k, term, acc) ==
    IF term = 0 THEN acc
    ELSE LET nxt == (term * y[1]) \div (y[2] * k)
         IN  ExpSeries(y, k + 1, nxt, acc + nxt)

\* np.exp, torch.exp.
Exp(a) ==
    IF IsNaN(a) THEN NaN
    ELSE IF Lt(R(ExpMaxArg, 1), a) THEN Inf
    ELSE IF Lt(a, R(-ExpMaxArg, 1)) THEN Zero
    ELSE IF Le(Zero, a) THEN R(ExpSeries(a, 1, ExpPrec, ExpPrec), ExpPrec)
    ELSE R(ExpPrec, ExpSeries(Neg(a), 1, ExpPrec, ExpPrec))

\* ----------------------------------------------------------------- arrays
\* A cloud is [n, dim]; a row vector is [dim]; a mask is [n].
\* Arrays are built eagerly (f @@ <<>> is f, evaluated).
Eager(f) == f @@ <<>>
CloudMap(Op(_), a) ==
    Eager([i \in DOMAIN a |-> Eager([j \in DOMAIN a[i] |-> Op(a[i][j])])])
CloudZip(Op(_, _), a, b) ==
    Eager([i \in DOMAIN a |-> Eager([j \in DOMAIN a[i] |-> Op(a[i][j], b[i][j])])])
\* cloud * mask[..., None]
MulRows(a, m) ==
    Eager([i \in DOMAIN a |-> Eager([j \in DOMAIN a[i] |-> Mul(a[i][j], m[i])])])
\* cloud - row[..., None, :]
SubRow(a, row) ==
    Eager([i \in DOMAIN a |-> Eager([j \in DOMAIN a[i] |-> Sub(a[i][j], row[j])])])

RECURSIVE SumSeq(_)
SumSeq(s) == IF s = <<>> THEN Zero ELSE Add(Head(s), SumSeq(Tail(s)))
\* np.sum(cloud, axis=-2)
SumPoints(a) == Eager([j \in DOMAIN a[1] |-> SumSeq([i \in DOMAIN a |-> a[i][j]])])

\* ---------------------------------------------------- objects and frames
\* A call runs in a frame: self (the diffuser's fields), the heap of array
\* objects, env (which object each name is bound to; 0 is None) and the
\* trace of the helper calls and random draws executed so far.
None == <<>>
Val(fr, name) == fr.heap[fr.env[name]]
\* name = <a freshly allocated array>
Bind(fr, name, val) ==
    [fr EXCEPT !.heap = Append(@, val),
               !.env = (name :> (Len(fr.heap) + 1)) @@ @]
\* name <op>= ... : the object name is bound to is changed in place
Update(fr, name, val) == [fr EXCEPT !.heap[fr.env[name]] = val]
Log(fr, ev) == [fr EXCEPT !.trace = Append(@, ev)]

Return(fr, val) == [fr |-> fr, raised |-> "", val |-> val]
Raise(fr, exc) == [fr |-> fr, raised |-> exc, val |-> None]

\* A time argument: a Python scalar, or a 1-d array / tensor of times.
Scalar(r) == [scalar |-> TRUE, v |-> <<r>>]
Vector(rs) == [scalar |-> FALSE, v |-> rs]
isscalar(t) == t.scalar

\* ------------------------------------------------------------- R3Diffuser
__init__(dim, min_b, max_b, scaling) ==
    [dim |-> dim, min_b |-> min_b, max_b |-> max_b, scaling |-> scaling]

_scaleInPlace(fr, dst, src) ==
    LET scaled == CloudMap(LAMBDA v : Mul(v, fr.self.scaling), Val(fr, src))
        fr1 == Update(fr, src, scaled)
    IN  Log([fr1 EXCEPT !.env = (dst :> fr1.env[src]) @@ @], "_scale")

\* dst = self._scale(src): x * self.scaling is a new array
_scale(fr, dst, src) ==
    Log(Bind(fr, dst, CloudMap(LAMBDA v : Mul(v, fr.self.scaling), Val(fr, src))),
        "_scale")

\* dst = self._unscale(src): x / self.scaling is a new array
_unscale(fr, dst, src) ==
    Log(Bind(fr, dst, CloudMap(LAMBDA v : Div(v, fr.self.scaling), Val(fr, src))),
        "_unscale")

b_tUnchecked(self, t) ==
    [ok |-> TRUE,
     v |-> [i \in DOMAIN t.v |-> Add(self.min_b, Mul(t.v[i], Sub(self.max_b, self.min_b)))]]

\* ok = FALSE is the ValueError of line 29
b_t(self, t) ==
    IF (\E i \in DOMAIN t.v : Lt(t.v[i], Zero)) \/ (\E i \in DOMAIN t.v : Lt(One, t.v[i]))
    THEN [ok |-> FALSE, v |-> None]
    ELSE [ok |-> TRUE,
          v |-> [i \in DOMAIN t.v |->
                    Add(self.min_b, Mul(t.v[i], Sub(self.max_b, self.min_b)))]]

diffusion_coef(self, t) ==
    LET b == b_t(self, t)
    IN  IF b.ok THEN [ok |-> TRUE, v |-> [i \in DOMAIN b.v |-> Sqrt(b.v[i])]] ELSE b

\* x is a cloud; b_t(t) has one element and broadcasts over it
drift_coef(self, x, t) ==
    LET b == b_t(self, t)
    IN  IF b.ok
        THEN [ok |-> TRUE, v |-> CloudMap(LAMBDA c : Mul(Mul(R(-1, 2), b.v[1]), c), x)]
        ELSE b

marginal_b_tWrongSign(self, t) ==
    [i \in DOMAIN t.v |->
        Sub(Mul(t.v[i], self.min_b),
            Mul(Mul(R(1, 2), Mul(t.v[i], t.v[i])), Sub(self.max_b, self.min_b)))]

marginal_b_t(self, t) ==
    [i \in DOMAIN t.v |->
        Add(Mul(t.v[i], self.min_b),
            Mul(Mul(R(1, 2), Mul(t.v[i], t.v[i])), Sub(self.max_b, self.min_b)))]

noiseUnscaled(noise_scale, normal) == normal

\* line 143: z = noise_scale * np.random.normal(size=score_t.shape)
noise(noise_scale, normal) == CloudMap(LAMBDA v : Mul(noise_scale, v), normal)

maskSkipped(fr) ==
    IF fr.env["mask"] # 0 THEN fr
    ELSE Bind(fr, "mask", [i \in DOMAIN Val(fr, "x_t") |-> One])

\* lines 146-149: perturb *= mask[..., None], or mask = np.ones(x_t.shape[:-1])
applyMask(fr) ==
    IF fr.env["mask"] # 0
    THEN Update(fr, "perturb", MulRows(Val(fr, "perturb"), Val(fr, "mask")))
    ELSE Bind(fr, "mask", [i \in DOMAIN Val(fr, "x_t") |-> One])

recenterOnInput(fr) ==
    LET total == SumPoints(Val(fr, "x_t"))
        count == SumSeq(Val(fr, "mask"))
        fr1 == Bind(fr, "com", [j \in DOMAIN total |-> Div(total[j], count)])
    IN  Update(fr1, "x_t_1", SubRow(Val(fr1, "x_t_1"), Val(fr1, "com")))

\* lines 152-153: com = np.sum(x_t_1, axis=-2) / np.sum(mask, axis=-1)[..., None];
\* x_t_1 -= com[..., None, :].  A zero mask sum divides by zero: numpy warns and
\* yields inf or nan, it does not raise.
recenter(fr) ==
    LET total == SumPoints(Val(fr, "x_t_1"))
        count == SumSeq(Val(fr, "mask"))
        fr1 == Bind(fr, "com", [j \in DOMAIN total |-> Div(total[j], count)])
    IN  Update(fr1, "x_t_1", SubRow(Val(fr1, "x_t_1"), Val(fr1, "com")))

\* normal is what np.random.normal returns when the call reaches line 143
reverse(fr0, t, dt, center, noise_scale, normal) ==
    IF ~isscalar(t) THEN Raise(fr0, "ValueError")
    ELSE
    LET fr1 == _scale(fr0, "x_t", "x_t")
        g == diffusion_coef(fr1.self, t)
    IN  IF ~g.ok THEN Raise(fr1, "ValueError")
        ELSE
        LET g_t == g.v[1]
            f_t == drift_coef(fr1.self, Val(fr1, "x_t"), t).v
            fr2 == Bind(Log(fr1, "normal"), "z", noise(noise_scale, normal))
            drift == CloudMap(LAMBDA v : Mul(v, dt),
                        CloudZip(Sub, f_t,
                            CloudMap(LAMBDA s : Mul(Mul(g_t, g_t), s), Val(fr2, "score_t"))))
            diffusion == CloudMap(LAMBDA v : Mul(Mul(g_t, Sqrt(dt)), v), Val(fr2, "z"))
            fr3 == Bind(fr2, "perturb", CloudZip(Add, drift, diffusion))
            fr4 == applyMask(fr3)
            fr5 == Bind(fr4, "x_t_1", CloudZip(Sub, Val(fr4, "x_t"), Val(fr4, "perturb")))
            fr6 == IF center THEN recenter(fr5) ELSE fr5
            fr7 == _unscale(fr6, "x_t_1", "x_t_1")
        IN  Return(fr7, Val(fr7, "x_t_1"))


\* line 67: b_t = marginal_b_t(t) / num_t, the step variance of forward
forward_b_t(self, t, num_t) == Div(marginal_b_t(self, t)[1], R(num_t, 1))

\* normal is what np.random.normal returns when the call reaches line 68.
\* The result is returned as computed, in scaled units: there is no _unscale.
forward(fr0, t, num_t, normal) ==
    IF ~isscalar(t) THEN Raise(fr0, "ValueError")
    ELSE
    LET fr1 == _scale(fr0, "x_t_1", "x_t_1")
        b == forward_b_t(fr1.self, t, num_t)
        fr2 == Bind(Log(fr1, "normal"), "z_t_1", normal)
        fr3 == Bind(fr2, "x_t",
                    CloudZip(Add,
                        CloudMap(LAMBDA v : Mul(Sqrt(Sub(One, b)), v), Val(fr2, "x_t_1")),
                        CloudMap(LAMBDA z : Mul(Sqrt(b), z), Val(fr2, "z_t_1"))))
    IN  Return(fr3, Val(fr3, "x_t"))

\* returns (mu, std); mu is still in scaled units
distribution(fr0, t, dt) ==
    LET fr1 == _scale(fr0, "x_t", "x_t")
        g == diffusion_coef(fr1.self, t)
    IN  IF ~g.ok THEN Raise(fr1, "ValueError")
        ELSE
        LET g_t == g.v[1]
            f_t == drift_coef(fr1.self, Val(fr1, "x_t"), t).v
            std == Mul(g_t, Sqrt(dt))
            fr2 == Bind(fr1, "mu",
                        CloudZip(Sub, Val(fr1, "x_t"),
                            CloudMap(LAMBDA v : Mul(v, dt),
                                CloudZip(Sub, f_t,
                                    CloudMap(LAMBDA s : Mul(Mul(g_t, g_t), s),
                                             Val(fr1, "score_t"))))))
            fr3 == IF fr2.env["mask"] # 0
                   THEN Update(fr2, "mu", MulRows(Val(fr2, "mu"), Val(fr2, "mask")))
                   ELSE fr2
        IN  Return(fr3, <<Val(fr3, "mu"), std>>)

\* torch.exp is given a tensor: a Python float is a TypeError
conditional_var(self, t) ==
    IF isscalar(t) THEN [ok |-> FALSE, v |-> None]
    ELSE LET B == marginal_b_t(self, t)
         IN  [ok |-> TRUE, v |-> [i \in DOMAIN B |-> Sub(One, Exp(Neg(B[i])))]]

score_scaling(self, t) ==
    LET cv == conditional_var(self, t)
    IN  IF cv.ok THEN [ok |-> TRUE, v |-> [i \in DOMAIN cv.v |-> Div(One, Sqrt(cv.v[i]))]]
        ELSE cv

\* t[:, None, None] needs a 1-d tensor (a float is not subscriptable); with one
\* time it broadcasts over the cloud and the result has shape [1, n, dim].
score(fr0, x_t_name, x_0_name, t, scale) ==
    LET fr1 == IF scale THEN _scale(fr0, x_t_name, x_t_name) ELSE fr0
        fr2 == IF scale THEN _scale(fr1, x_0_name, x_0_name) ELSE fr0
    IN  IF isscalar(t) THEN Raise(fr2, "TypeError")
        ELSE
        LET coeff == Exp(Mul(R(-1, 2), marginal_b_t(fr2.self, t)[1]))
            cv == conditional_var(fr2.self, t).v[1]
            diff == CloudZip(Sub, Val(fr2, x_t_name),
                        CloudMap(LAMBDA v : Mul(coeff, v), Val(fr2, x_0_name)))
        IN  Return(fr2, <<CloudMap(LAMBDA v : Div(Neg(v), cv), diff)>>)

\* eps is the standard normal draw behind torch.normal(mean, std) of line 104.
\* log_mean_coeff.shape needs a tensor t: a Python float has no shape.
forward_marginal(fr0, t, eps) ==
    LET fr1 == _scale(fr0, "x_0", "x_0")
    IN  IF isscalar(t) THEN Raise(fr1, "AttributeError")
        ELSE
        LET log_mean_coeff == Mul(R(-1, 2), marginal_b_t(fr1.self, t)[1])
            mean == CloudMap(LAMBDA v : Mul(Exp(log_mean_coeff), v), Val(fr1, "x_0"))
            std == Sqrt(Sub(One, Exp(Mul(R(2, 1), log_mean_coeff))))
            fr2 == Bind(Log(fr1, "normal"), "x_t",
                        CloudZip(Add, mean, CloudMap(LAMBDA e : Mul(std, e), eps)))
            sc == score(fr2, "x_t", "x_0", t, FALSE)
            fr3 == _unscale(sc.fr, "x_t", "x_t")
        IN  Return(fr3, <<Val(fr3, "x_t"), sc.val>>)

\* beta_t[..., None, None] needs an array t; the result has shape [1, n, dim]
calc_trans_0(fr0, t, use_torch) ==
    IF isscalar(t) THEN Raise(fr0, "TypeError")
    ELSE
    LET beta_t == marginal_b_t(fr0.self, t)[1]
        cond_var == Sub(One, Exp(Neg(beta_t)))
        denom == Exp(Mul(R(-1, 2), beta_t))
    IN  Return(fr0, <<CloudMap(LAMBDA v : Div(v, denom),
                         CloudZip(Add,
                             CloudMap(LAMBDA s : Mul(s, cond_var), Val(fr0, "score_t")),
                             Val(fr0, "x_t")))>>)

\* np.random.normal(size=(n_samples, self.dim))
sample_ref(fr0, normal) == Return(Log(fr0, "normal"), normal)

\* ------------------------------------------------------------------ inputs
Dim == {1}
Configs == {__init__(d, R(1, 10), R(20, 1), R(1, 10)) : d \in Dim}

\* the origin cloud, and the clouds with one point moved to (1, ..., 1)
Positions(d) ==
    {[i \in 1..NPoints |-> [j \in 1..d |-> IF i = k THEN One ELSE Zero]] : k \in 0..NPoints}
Scores(d) == {[i \in 1..NPoints |-> [j \in 1..d |-> v]] : v \in {Zero, One}}
\* the first k points active, and no mask at all
Masks == {[i \in 1..NPoints |-> IF i <= k THEN One ELSE Zero] : k \in 0..NPoints}
             \cup {None}
\* outcomes of np.random.normal / torch.normal for a cloud-shaped draw
Normals(d) == {[i \in 1..NPoints |-> [j \in 1..d |-> IF i % 2 = 1 THEN a ELSE b]] :
                  a \in {One}, b \in {One, Neg(One)}}
Times == {Scalar(R(-1, 10)), Scalar(R(1, 10)), Scalar(One), Scalar(R(3, 2)),
          Vector(<<R(1, 2)>>), Vector(<<R(3, 2)>>)}
Dts == {R(1, 4)}
NoiseScales == {Zero, One}

\* ------------------------------------------------------------------- state
VARIABLES
    self,       \* the diffuser object
    x_t,        \* caller-owned positions (x_t, x_0, x_t_1 of the calls)
    score_t,    \* caller-owned score
    mask,       \* caller-owned mask, or None
    call,       \* the last call: method and scalar arguments
    ret,        \* what it returned or raised
    trace       \* helper calls and random draws it executed
vars == <<self, x_t, score_t, mask, call, ret, trace>>

NoCall == [op |-> "", t |-> Scalar(Zero), dt |-> Zero, center |-> FALSE,
           noise_scale |-> Zero, num_t |-> 0, flag |-> FALSE]

Init ==
    /\ self \in Configs
    /\ x_t \in Positions(self.dim)
    /\ score_t \in Scores(self.dim)
    /\ mask \in Masks
    /\ call = NoCall
    /\ ret = [raised |-> "", val |-> None]
    /\ trace = <<>>

\* the frame of a call on the caller's arrays; the positions are passed under
\* each of the parameter names in pos (the same object under all of them)
Frame(pos) ==
    [self |-> self, heap |-> <<x_t, score_t, mask>>,
     env |-> [n \in pos \cup {"score_t", "mask"} |->
                CASE n = "score_t" -> 2
                  [] n = "mask" -> IF mask = None THEN 0 ELSE 3
                  [] OTHER -> 1],
     trace |-> <<>>]

\* after the call: the object's fields and the caller's arrays are what the
\* call left in them
Finish(c, r) ==
    /\ call' = c
    /\ ret' = [raised |-> r.raised, val |-> r.val]
    /\ trace' = r.fr.trace
    /\ self' = r.fr.self
    /\ x_t' = r.fr.heap[1]
    /\ score_t' = r.fr.heap[2]
    /\ mask' = r.fr.heap[3]

\* a method of the schedule: it gets self and t only
Pure(op, t, res) ==
    Finish([NoCall EXCEPT !.op = op, !.t = t],
           IF res.ok THEN Return(Frame({}), res.v) ELSE Raise(Frame({}), "ValueError"))

BT == \E t \in Times : Pure("b_t", t, b_t(self, t))

DiffusionCoef == \E t \in Times : Pure("diffusion_coef", t, diffusion_coef(self, t))

DriftCoef ==
    \E t \in Times :
        LET f == drift_coef(self, x_t, t)
        IN  Finish([NoCall EXCEPT !.op = "drift_coef", !.t = t],
                   IF f.ok THEN Return(Frame({"x"}), f.v)
                   ELSE Raise(Frame({"x"}), "ValueError"))

SampleRef ==
    \E normal \in Normals(self.dim) :
        Finish([NoCall EXCEPT !.op = "sample_ref"], sample_ref(Frame({}), normal))

MarginalBT ==
    \E t \in Times :
        Pure("marginal_b_t", t, [ok |-> TRUE, v |-> marginal_b_t(self, t)])

CalcTrans0 ==
    \E t \in Times, use_torch \in BOOLEAN :
        Finish([NoCall EXCEPT !.op = "calc_trans_0", !.t = t, !.flag = use_torch],
               calc_trans_0(Frame({"x_t"}), t, use_torch))

Forward ==
    \E t \in Times, num_t \in 1..MaxNumT, normal \in Normals(self.dim) :
        Finish([NoCall EXCEPT !.op = "forward", !.t = t, !.num_t = num_t],
               forward(Frame({"x_t_1"}), t, num_t, normal))

Distribution ==
    \E t \in Times, dt \in Dts :
        Finish([NoCall EXCEPT !.op = "distribution", !.t = t, !.dt = dt],
               distribution(Frame({"x_t"}), t, dt))

ForwardMarginal ==
    \E t \in Times, eps \in Normals(self.dim) :
        Finish([NoCall EXCEPT !.op = "forward_marginal", !.t = t],
               forward_marginal(Frame({"x_0"}), t, eps))

ScoreScaling ==
    \E t \in Times :
        LET s == score_scaling(self, t)
        IN  Finish([NoCall EXCEPT !.op = "score_scaling", !.t = t],
                   IF s.ok THEN Return(Frame({}), s.v) ELSE Raise(Frame({}), "TypeError"))

Reverse ==
    \E t \in Times, dt \in Dts, center \in BOOLEAN, noise_scale \in NoiseScales,
       normal \in Normals(self.dim) :
        Finish([NoCall EXCEPT !.op = "reverse", !.t = t, !.dt = dt, !.center = center,
                              !.noise_scale = noise_scale],
               reverse(Frame({"x_t"}), t, dt, center, noise_scale, normal))

ConditionalVar ==
    \E t \in Times :
        LET cv == conditional_var(self, t)
        IN  Finish([NoCall EXCEPT !.op = "conditional_var", !.t = t],
                   IF cv.ok THEN Return(Frame({}), cv.v) ELSE Raise(Frame({}), "TypeError"))

Score ==
    \E t \in Times, scale \in BOOLEAN :
        Finish([NoCall EXCEPT !.op = "score", !.t = t, !.flag = scale],
               score(Frame({"x_t", "x_0"}), "x_t", "x_0", t, scale))

Next ==
    \/ BT
    \/ DiffusionCoef
    \/ DriftCoef
    \/ SampleRef
    \/ MarginalBT
    \/ CalcTrans0
    \/ Forward
    \/ Distribution
    \/ ForwardMarginal
    \/ ScoreScaling
    \/ Reverse
    \/ ConditionalVar
    \/ Score

Spec == Init /\ [][Next]_vars

\* ------------------------------------------------------------------ claims
InRange(t) == \A i \in DOMAIN t.v : Le(Zero, t.v[i]) /\ Le(t.v[i], One)
ValidTime(t) == isscalar(t) /\ InRange(t)
NonFinite(a) == \E i \in DOMAIN a : \E j \in DOMAIN a[i] : ~IsFinite(a[i][j])
Count(ev) == Cardinality({i \in DOMAIN trace : trace[i] = ev})
Drew == \E i \in DOMAIN trace : trace[i] = "normal"
AllOnes(m) == \A i \in DOMAIN m : m[i] = One
Returned(op) == call.op = op /\ ret.raised = ""
\* the step variance of the last call of forward
StepVar == forward_b_t(self, call.t, call.num_t)

C2_ForwardRejectsOutOfRange ==
    (call.op \in {"forward", "forward_marginal"} /\ ~InRange(call.t)) => ret.raised # ""

\* C3 (as claimed): reverse with center=True and a mask that sums to zero either
\* raises or returns positions not derived from the division by the zero sum
\* (all finite).
C3_ZeroMaskGuarded ==
    (call.op = "reverse" /\ call.center /\ ValidTime(call.t)
        /\ mask # None /\ SumSeq(mask) = Zero) =>
        (ret.raised # "" \/ ~NonFinite(ret.val))

\* C4 (as claimed): every operation on raw positions (forward, forward_marginal,
\* reverse, distribution) that returns has matched each _scale on entry by
\* exactly one _unscale before returning.
C4_ScaleMatchedByUnscale ==
    (call.op \in {"forward", "forward_marginal", "reverse", "distribution"}
        /\ ret.raised = "") =>
        Count("_unscale") = Count("_scale")

\* C5: with noise_scale = 0 a second call of reverse with the same arguments on
\* the same arrays returns the same positions, whatever the generator drew in
\* either call.
C5_ReverseDeterministicWithoutNoise ==
    [][(/\ call.op = "reverse" /\ call.noise_scale = Zero
        /\ call' = call
        /\ x_t' = x_t /\ score_t' = score_t /\ mask' = mask) => ret' = ret]_vars
C5_Witness ==
    /\ Returned("reverse") /\ call.noise_scale = Zero /\ Drew
    /\ ret.val # x_t

\* C6: reverse with center=True and an all-ones mask or no mask returns
\* positions whose centroid (over all points, per coordinate) is zero.
C6_CenteredResultHasZeroCentroid ==
    (Returned("reverse") /\ call.center /\ (mask = None \/ AllOnes(mask))) =>
        \A j \in DOMAIN ret.val[1] : SumPoints(ret.val)[j] = Zero
C6_Witness ==
    /\ Returned("reverse") /\ call.center /\ mask # None /\ AllOnes(mask)
    /\ call.noise_scale = One
    /\ SumPoints(x_t)[1] # Zero
    /\ SumPoints(ret.val)[1] = Zero

\* C7: no call changes the diffuser's configuration or the caller's arrays.
C7_CallsLeaveConfigAndArguments ==
    [][self' = self /\ x_t' = x_t /\ score_t' = score_t /\ mask' = mask]_vars
C7_Witness ==
    /\ Returned("reverse") /\ call.center /\ mask # None /\ ~AllOnes(mask)
    /\ ret.val # x_t
    /\ self \in Configs

\* C8: in reverse with a mask and center=False every point whose mask entry is 0
\* is returned where it was: at unscale(scale(x_t)).
C8_MaskedPointsStay ==
    (Returned("reverse") /\ ~call.center /\ mask # None) =>
        \A i \in DOMAIN mask :
            mask[i] = Zero =>
                \A j \in DOMAIN x_t[i] :
                    ret.val[i][j] = Div(Mul(x_t[i][j], self.scaling), self.scaling)
C8_Witness ==
    /\ Returned("reverse") /\ ~call.center /\ mask # None
    /\ \E i \in DOMAIN mask : mask[i] = Zero /\ ret.val[i] = x_t[i] /\ x_t[i][1] # Zero
    /\ \E i \in DOMAIN mask : mask[i] = One /\ ret.val[i] # x_t[i]

\* C9 (as claimed): in reverse with center=True and a mask with at least one
\* active point, the centroid of the active points of the result is zero.
C9_ActiveCentroidZero ==
    (Returned("reverse") /\ call.center /\ mask # None /\ SumSeq(mask) # Zero) =>
        \A j \in DOMAIN ret.val[1] : SumPoints(MulRows(ret.val, mask))[j] = Zero

\* C10 (as claimed): for every t in [0,1] and num_t >= 1 the step variance b of
\* forward satisfies 0 <= b <= 1, so forward takes no square root of a
\* negative number.
C10_StepVarianceInUnitInterval ==
    (Returned("forward") /\ ValidTime(call.t)) =>
        /\ Le(Zero, StepVar) /\ Le(StepVar, One)
        /\ ~NonFinite(ret.val)

\* C10 (amended): for every t in [0,1], marginal_b_t(t) >= 0 and is
\* non-decreasing in t; the step variance b of forward is >= 0 for every
\* num_t >= 1, and 1 - b is negative, so that forward returns nan, exactly when
\* num_t < marginal_b_t(t).
C10_VarianceNonNegative ==
    /\ []((call.op = "marginal_b_t" /\ InRange(call.t)) => Le(Zero, ret.val[1]))
    /\ [][(/\ call.op = "marginal_b_t" /\ call'.op = "marginal_b_t"
           /\ InRange(call.t) /\ InRange(call'.t)
           /\ Le(call.t.v[1], call'.t.v[1])) => Le(ret.val[1], ret'.val[1])]_vars
    /\ []((Returned("forward") /\ ValidTime(call.t)) =>
            /\ Le(Zero, StepVar)
            /\ NonFinite(ret.val) <=> Lt(R(call.num_t, 1), marginal_b_t(self, call.t)[1]))
C10_Witness ==
    /\ Returned("forward") /\ ValidTime(call.t)
    /\ Lt(Zero, StepVar) /\ Lt(StepVar, One)
    /\ ~NonFinite(ret.val)

====
